---- MODULE Spec2Model ----
(***************************************************************************)
(* Model of the disclaude relay: the Feishu SessionManager (a JSON-file    *)
(* backed mapping chat_id -> session_id), the AgentClient completion call  *)
(* and the two platform bots (FeishuBot, DiscordBot) that relay inbound    *)
(* chat messages to the completion API and the reply back to the chat.     *)
(*                                                                         *)
(* Texts are sequences of tokens (strings); concatenation, prefix tests,   *)
(* strip() and replace() are computed on the token sequences.              *)
(***************************************************************************)
EXTENDS Integers, Sequences, FiniteSets, TLC

VARIABLES
    _sessions,              \* SessionManager._sessions: chat_id -> session_id
    file,                   \* content of the file at SessionManager._persistence_path
    _lock,                  \* SessionManager._lock.locked()
    storeOp,                \* the set/clear call that has mutated memory and not yet written the file
    last,                   \* the last completed SessionManager call and its outcome
    platform,               \* Config.PLATFORM
    started,                \* the bot's start() has connected the platform client
    _running,               \* FeishuBot._running
    conversation_history,   \* DiscordBot.conversation_history: user id -> session id
    msgs,                   \* the inbound events the platform has delivered, in order
    tasks,                  \* per inbound event: where its handling stands and what it did
    cpu,                    \* the event whose handling occupies the event loop's thread (0: none)
    failures,               \* how many deliveries to the platform's send API have failed
    config,                 \* the settings Config read from the environment
    exit_code,              \* <<>> while the process lives, <<code>> once it has exited
    config_call,            \* the last call of a Config classmethod and its outcome
    request                 \* the text last given to build a Feishu message, and the content built

storeVars == <<_sessions, file, _lock, storeOp, last>>

relayVars ==
    <<platform, started, _running, conversation_history, msgs, tasks, cpu, failures,
      config, exit_code, config_call, request>>

vars == <<_sessions, file, _lock, storeOp, last,
          platform, started, _running, conversation_history, msgs, tasks, cpu, failures,
          config, exit_code, config_call, request>>

(***************************************************************************)
(* Values                                                                  *)
(***************************************************************************)
Chats == {"c1", "c2"}

SessionIds == {"s1", "7"}

JsonNumbers == {7}

None == "<None>"

\* A JSON scalar as json.load returns it: a str or an int.
JStr(s) == [t |-> "str", v |-> s]

JNum(n) == [t |-> "num", v |-> n]

JsonScalars == {JStr(s) : s \in SessionIds} \cup {JNum(n) : n \in JsonNumbers}

\* Python's str() on a value json.load returned.
str(j) == IF j.t = "str" THEN j.v ELSE ToString(j.v)

\* The persistence file: absent, not JSON at all (also: empty or cut short),
\* JSON that is not an object, or a JSON object.
NoFile == [kind |-> "missing", items |-> <<>>]

Garbage == [kind |-> "garbage", items |-> <<>>]

NonObject == [kind |-> "array", items |-> <<>>]

JsonObject(items) == [kind |-> "object", items |-> items]

Mappings(S, V) == UNION {[D -> V] : D \in SUBSET S}

InitialFiles ==
    {NoFile, Garbage, NonObject} \cup {JsonObject(m) : m \in Mappings(Chats, JsonScalars)}

\* The files the relay is started on.
RelayFiles == {NoFile, JsonObject(("c1" :> JNum(7)) @@ ("c2" :> JStr("s1")))}

(***************************************************************************)
(* Config and main                                                         *)
(***************************************************************************)
\* The settings of Config that validate reads. A credential is None (the
\* variable is not set), "" or a value.
Settings(PLATFORM, DISCORD_BOT_TOKEN, FEISHU_APP_ID, FEISHU_APP_SECRET, GLM_API_KEY, ANTHROPIC_API_KEY) ==
    [PLATFORM |-> PLATFORM, DISCORD_BOT_TOKEN |-> DISCORD_BOT_TOKEN,
     FEISHU_APP_ID |-> FEISHU_APP_ID, FEISHU_APP_SECRET |-> FEISHU_APP_SECRET,
     GLM_API_KEY |-> GLM_API_KEY, ANTHROPIC_API_KEY |-> ANTHROPIC_API_KEY]

\* "not cls.X": the setting is unset or empty.
not(x) == x = None \/ x = ""

\* How a call of a classmethod ends: with a value, or with a ValueError
\* carrying a message.
Returns(v) == [raised |-> FALSE, value |-> v]

Raises(message) == [raised |-> TRUE, value |-> message]

\* No Feishu message content has been built yet.
NoRequest == [text |-> <<>>, content |-> <<>>]

\* No classmethod of Config has been called yet.
NoCall == [name |-> "none", outcome |-> Returns(None)]

\* A validate that stops at the first requirement it finds violated.
validate_first(cfg) ==
    IF cfg.PLATFORM \notin {"discord", "feishu"}
    THEN <<"PLATFORM must be 'discord' or 'feishu', got: " \o cfg.PLATFORM>>
    ELSE IF cfg.PLATFORM = "discord" /\ not(cfg.DISCORD_BOT_TOKEN)
    THEN <<"DISCORD_BOT_TOKEN is required when PLATFORM=discord">>
    ELSE IF cfg.PLATFORM = "feishu" /\ not(cfg.FEISHU_APP_ID)
    THEN <<"FEISHU_APP_ID is required when PLATFORM=feishu">>
    ELSE IF cfg.PLATFORM = "feishu" /\ not(cfg.FEISHU_APP_SECRET)
    THEN <<"FEISHU_APP_SECRET is required when PLATFORM=feishu">>
    ELSE IF not(cfg.GLM_API_KEY) /\ not(cfg.ANTHROPIC_API_KEY)
    THEN <<"At least one API key is required: GLM_API_KEY or ANTHROPIC_API_KEY">>
    ELSE <<>>

\* The errors Config.validate collects, in order; it returns True when there
\* is none and raises ValueError listing them all otherwise.
validate(cfg) ==
    (IF cfg.PLATFORM \notin {"discord", "feishu"}
     THEN <<"PLATFORM must be 'discord' or 'feishu', got: " \o cfg.PLATFORM>> ELSE <<>>)
    \o (IF cfg.PLATFORM = "discord" /\ not(cfg.DISCORD_BOT_TOKEN)
        THEN <<"DISCORD_BOT_TOKEN is required when PLATFORM=discord">> ELSE <<>>)
    \o (IF cfg.PLATFORM = "feishu" /\ not(cfg.FEISHU_APP_ID)
        THEN <<"FEISHU_APP_ID is required when PLATFORM=feishu">> ELSE <<>>)
    \o (IF cfg.PLATFORM = "feishu" /\ not(cfg.FEISHU_APP_SECRET)
        THEN <<"FEISHU_APP_SECRET is required when PLATFORM=feishu">> ELSE <<>>)
    \o (IF not(cfg.GLM_API_KEY) /\ not(cfg.ANTHROPIC_API_KEY)
        THEN <<"At least one API key is required: GLM_API_KEY or ANTHROPIC_API_KEY">>
        ELSE <<>>)

\* Config.validate as its caller sees it: True, or a ValueError whose
\* message joins every collected error.
Config_validate(cfg) ==
    IF validate(cfg) = <<>> THEN Returns(TRUE) ELSE Raises(validate(cfg))

\* The defaults of the settings get_agent_config hands out.
CLAUDE_MODEL == "claude-3-5-sonnet-20241022"

GLM_MODEL == "glm-4.7"

GLM_API_BASE_URL == "https://open.bigmodel.cn/api/anthropic"

\* A get_agent_config that falls back to GLM instead of preferring it.
get_agent_config_anthropic_first(cfg) ==
    IF ~not(cfg.ANTHROPIC_API_KEY)
    THEN Returns([api_key |-> cfg.ANTHROPIC_API_KEY, model |-> CLAUDE_MODEL,
                  api_base_url |-> None])
    ELSE IF ~not(cfg.GLM_API_KEY)
    THEN Returns([api_key |-> cfg.GLM_API_KEY, model |-> GLM_MODEL,
                  api_base_url |-> GLM_API_BASE_URL])
    ELSE Raises("No API key configured. Set GLM_API_KEY or ANTHROPIC_API_KEY")

\* Config.get_agent_config: GLM when its key is truthy, else Anthropic when
\* its key is truthy, else ValueError.
get_agent_config(cfg) ==
    IF ~not(cfg.GLM_API_KEY)
    THEN Returns([api_key |-> cfg.GLM_API_KEY, model |-> GLM_MODEL,
                  api_base_url |-> GLM_API_BASE_URL])
    ELSE IF ~not(cfg.ANTHROPIC_API_KEY)
    THEN Returns([api_key |-> cfg.ANTHROPIC_API_KEY, model |-> CLAUDE_MODEL,
                  api_base_url |-> None])
    ELSE Raises("No API key configured. Set GLM_API_KEY or ANTHROPIC_API_KEY")

\* Config.get_platform_info: the ValueError of get_agent_config passes
\* through; every platform but 'discord' is described as Feishu/Lark.
get_platform_info(cfg) ==
    LET agent_config == get_agent_config(cfg) IN
    IF agent_config.raised THEN agent_config
    ELSE IF cfg.PLATFORM = "discord"
    THEN Returns("Discord bot with " \o agent_config.value.model)
    ELSE Returns("Feishu/Lark bot with " \o agent_config.value.model)

FeishuConfig == Settings("feishu", None, "id", "secret", "key", None)

DiscordConfig == Settings("discord", "token", None, None, "key", "key")

\* The configurations the process is run with.
RelayConfigs ==
    {FeishuConfig, DiscordConfig,
     Settings("discord", "", None, None, "key", None),
     Settings("feishu", "token", "id", None, None, ""),
     Settings("slack", "token", "id", "secret", "key", None)}

\* A main that ends every way with the same code.
ExitCode_zero(cause) == 0

\* How main's process ends: sys.exit(1) after a ValueError from
\* Config.validate; a KeyboardInterrupt out of asyncio.run(main()) is caught
\* and the script ends normally.
ExitCode(cause) == IF cause = "configuration error" THEN 1 ELSE 0

(***************************************************************************)
(* SessionManager                                                          *)
(***************************************************************************)
\* A dump that writes each key where its value belongs.
json_dump_keys(sessions) == JsonObject([k \in DOMAIN sessions |-> JStr(k)])

\* json.dump(self._sessions, f, indent=2): every key and value is a str.
json_dump(sessions) == JsonObject([k \in DOMAIN sessions |-> JStr(sessions[k])])

\* A load that keeps the mapping whenever it reads no JSON object.
load_from_file_keep(f, sessions) ==
    IF f.kind = "object" THEN [k \in DOMAIN f.items |-> str(f.items[k])] ELSE sessions

\* load_from_file: the mapping in memory after the call.
load_from_file(f, sessions) ==
    IF f.kind = "missing" THEN sessions
    ELSE IF f.kind = "object" THEN [k \in DOMAIN f.items |-> str(f.items[k])]
    ELSE <<>>

\* What a save attempt does to the file: "ok" writes the whole mapping;
\* makedirs or open failing leaves the file as it was; a write failing after
\* open(path, 'w') leaves a truncated file.
SaveOutcomes == {"ok", "unchanged", "truncated"}

\* A save that reports success without replacing the file.
save_to_file_stale(f, sessions, outcome) == f

save_to_file(f, sessions, outcome) ==
    CASE outcome = "ok" -> json_dump(sessions)
      [] outcome = "unchanged" -> f
      [] outcome = "truncated" -> Garbage

\* A save that lets the failure through.
save_raises_through(outcome) == outcome # "ok"

\* Whether save_to_file lets the failure reach its caller: it catches
\* Exception and logs a warning.
save_raises(outcome) == FALSE

\* A lookup that answers a default id for a chat it does not know.
get_session_id_default(sessions, chat_id) ==
    IF chat_id \in DOMAIN sessions THEN sessions[chat_id] ELSE "s1"

\* self._sessions.get(chat_id)
get_session_id(sessions, chat_id) ==
    IF chat_id \in DOMAIN sessions THEN sessions[chat_id] ELSE None

\* self._sessions[chat_id] = session_id
set_item(sessions, chat_id, session_id) == (chat_id :> session_id) @@ sessions

\* A delete that empties the mapping.
del_item_all(sessions, chat_id) == <<>>

\* A delete that leaves the entry where it is.
del_item_kept(sessions, chat_id) == sessions

\* del self._sessions[chat_id]
del_item(sessions, chat_id) == [k \in DOMAIN sessions \ {chat_id} |-> sessions[k]]

NoOp == [name |-> "none", chat_id |-> "", value |-> ""]

Completed(name, chat_id, value, wrote, raised, result) ==
    [name |-> name, chat_id |-> chat_id, value |-> value, wrote |-> wrote,
     raised |-> raised, result |-> result]

\* A manager whose lock is taken at construction and never released.
SessionManagerInit_locked ==
    /\ _sessions = <<>>
    /\ file \in InitialFiles
    /\ _lock = TRUE
    /\ storeOp = NoOp
    /\ last = Completed("init", "", "", "none", FALSE, None)

\* SessionManager.__init__. The manager is used as FeishuBot.start uses it:
\* load_from_file is the first call made on it.
SessionManagerInit ==
    /\ _sessions = <<>>
    /\ file \in InitialFiles
    /\ _lock = FALSE
    /\ storeOp = NoOp
    /\ last = Completed("init", "", "", "none", FALSE, None)

\* set_session_id, up to the await of save_to_file: memory holds the new value.
set_session_id(chat_id, session_id) ==
    /\ storeOp = NoOp
    /\ last.name # "init"
    /\ _sessions' = set_item(_sessions, chat_id, session_id)
    /\ storeOp' = [name |-> "set", chat_id |-> chat_id, value |-> session_id]
    /\ UNCHANGED <<file, _lock, last>>

\* A clear that gives the chat a new session instead of dropping it.
clear_session_sets(chat_id) == set_session_id(chat_id, "s1")

\* clear_session: an absent key returns at once, without touching the file.
clear_session(chat_id) ==
    /\ storeOp = NoOp
    /\ last.name # "init"
    /\ IF chat_id \in DOMAIN _sessions
       THEN /\ _sessions' = del_item(_sessions, chat_id)
            /\ storeOp' = [name |-> "clear", chat_id |-> chat_id, value |-> ""]
            /\ UNCHANGED <<file, _lock, last>>
       ELSE /\ last' = Completed("clear", chat_id, "", "none", FALSE, None)
            /\ UNCHANGED <<_sessions, file, _lock, storeOp>>

\* The save_to_file call that ends a set or a clear.
flush(outcome) ==
    /\ storeOp # NoOp
    /\ file' = save_to_file(file, _sessions, outcome)
    /\ last' = Completed(storeOp.name, storeOp.chat_id, storeOp.value,
                         IF outcome = "ok" THEN "ok" ELSE "failed",
                         save_raises(outcome), None)
    /\ storeOp' = NoOp
    /\ UNCHANGED <<_sessions, _lock>>

RelayIdle ==
    /\ platform = "feishu"
    /\ started = FALSE
    /\ _running = FALSE
    /\ conversation_history = <<>>
    /\ msgs = <<>>
    /\ tasks = <<>>
    /\ cpu = 0
    /\ failures = 0
    /\ config = FeishuConfig
    /\ exit_code = <<>>
    /\ config_call = NoCall
    /\ request = NoRequest

ApiSet ==
    /\ \E c \in Chats, s \in SessionIds : set_session_id(c, s)
    /\ UNCHANGED relayVars

ApiClear ==
    /\ \E c \in Chats : clear_session(c)
    /\ UNCHANGED relayVars

ApiFlush ==
    /\ \E o \in SaveOutcomes : flush(o)
    /\ UNCHANGED relayVars

ApiGet ==
    \E c \in Chats :
        /\ storeOp = NoOp
        /\ last.name # "init"
        /\ last' = Completed("get", c, "", "none", FALSE, get_session_id(_sessions, c))
        /\ UNCHANGED <<_sessions, file, _lock, storeOp>>
        /\ UNCHANGED relayVars

ApiLoad ==
    /\ storeOp = NoOp
    /\ _sessions' = load_from_file(file, _sessions)
    /\ last' = Completed("load", "", "", "none", FALSE, None)
    /\ UNCHANGED <<file, _lock, storeOp>>
    /\ UNCHANGED relayVars

StoreInit == SessionManagerInit /\ RelayIdle

StoreNext == ApiSet \/ ApiClear \/ ApiFlush \/ ApiGet \/ ApiLoad

\* The SessionManager driven through its methods by an arbitrary caller.
StoreSpec == StoreInit /\ [][StoreNext]_vars

(***************************************************************************)
(* Properties of the SessionManager (checked under StoreSpec)              *)
(***************************************************************************)
\* The mapping a file holds: what load_from_file makes of it from scratch.
FileMapping == load_from_file(file, <<>>)

\* A set or a clear has just returned to its caller.
Returned == storeOp = NoOp /\ last.name \in {"set", "clear"}

\* C1, as stated: after every set_session_id or clear_session call has
\* returned, the mapping in the file equals the mapping in memory, whether or
\* not the write succeeded.
C1_FileAlwaysEqualsMemory == Returned => FileMapping = _sessions

\* C1, amended: after a set_session_id or clear_session call whose write
\* succeeded, the file is the JSON object of the mapping in memory and loads
\* back to it; a call whose write failed, or a clear of an absent chat id
\* (which writes nothing), leaves the file as the failure left it.
C1_FileEqualsMemoryAfterWrite ==
    /\ (Returned /\ last.wrote = "ok") =>
            file = json_dump(_sessions) /\ FileMapping = _sessions
    /\ (Returned /\ last.wrote = "none") =>
            last.name = "clear" /\ last.chat_id \notin DOMAIN _sessions

C1_Witness ==
    /\ Returned
    /\ last.wrote = "ok"
    /\ Cardinality(DOMAIN _sessions) = 2
    /\ \E c \in DOMAIN _sessions : _sessions[c] = "7"

\* C2, as stated: a set or clear whose write failed signals the I/O error to
\* its caller, and memory holds the attempted value.
C2_FailureSignalled ==
    (Returned /\ last.wrote = "failed") =>
        /\ last.raised
        /\ last.name = "set" => get_session_id(_sessions, last.chat_id) = last.value
        /\ last.name = "clear" => last.chat_id \notin DOMAIN _sessions

\* C2, amended: a set or clear whose write failed returns normally (the
\* failure is logged by save_to_file and never reaches the caller), and
\* memory holds the attempted value: the set id, or no entry after a clear.
C2_FailureSwallowed ==
    (Returned /\ last.wrote = "failed") =>
        /\ ~last.raised
        /\ last.name = "set" => get_session_id(_sessions, last.chat_id) = last.value
        /\ last.name = "clear" => last.chat_id \notin DOMAIN _sessions

C2_Witness ==
    /\ Returned
    /\ last.wrote = "failed"
    /\ last.name = "set"
    /\ FileMapping # _sessions

\* C3, as stated: every SessionManager operation holds the manager's lock for
\* its whole duration.
C3_LockHeldDuringOperation == storeOp # NoOp => _lock

\* C4: right after set_session_id(c, s), get_session_id(c) is s; and when the
\* write of that set succeeded, load_from_file on a fresh manager rebuilds
\* exactly the mapping in memory.
C4_SetThenGetAndReload ==
    /\ (storeOp # NoOp /\ storeOp.name = "set") =>
            get_session_id(_sessions, storeOp.chat_id) = storeOp.value
    /\ (storeOp = NoOp /\ last.name = "set") =>
            get_session_id(_sessions, last.chat_id) = last.value
    /\ (storeOp = NoOp /\ last.name = "set" /\ last.wrote = "ok") =>
            load_from_file(file, <<>>) = _sessions

C4_Witness ==
    /\ storeOp = NoOp
    /\ last.name = "set"
    /\ last.wrote = "ok"
    /\ last.value = "s1"
    /\ DOMAIN _sessions = Chats
    /\ _sessions["c1"] # _sessions["c2"]

(***************************************************************************)
(* Texts                                                                   *)
(***************************************************************************)
RECURSIVE lstrip(_)
lstrip(t) == IF t # <<>> /\ Head(t) = " " THEN lstrip(Tail(t)) ELSE t

RECURSIVE rstrip(_)
rstrip(t) == IF t # <<>> /\ t[Len(t)] = " " THEN rstrip(SubSeq(t, 1, Len(t) - 1)) ELSE t

\* str.strip()
strip(t) == rstrip(lstrip(t))

\* str.replace(tok, "")
remove(t, tok) == SelectSeq(t, LAMBDA x : x # tok)

\* str.startswith(tok)
startswith(t, tok) == t # <<>> /\ Head(t) = tok

\* Whether text t holds text d as a substring.
contains(t, d) ==
    \E i \in 1..(Len(t) + 1) : i + Len(d) - 1 <= Len(t) /\ SubSeq(t, i, i + Len(d) - 1) = d

(***************************************************************************)
(* Inbound events                                                          *)
(***************************************************************************)
MaxMsgs == 2

\* One inbound event. Feishu: message.chat_id, message.message_type and
\* message.content (json: "bad" does not parse, "no_text" has no text key,
\* "text" carries text). Discord: the channel, message.content (text),
\* message.author.bot and whether the bot is in message.mentions; each
\* channel has one author, so conversation_history (keyed by the author's
\* id) is keyed by chat_id here.
Event(chat_id, message_type, json, text, bot, mentions) ==
    [chat_id |-> chat_id, message_type |-> message_type, json |-> json, text |-> text,
     bot |-> bot, mentions |-> mentions]

FeishuText(chat_id, text) == Event(chat_id, "text", "text", text, FALSE, FALSE)

FeishuEvents ==
    {FeishuText(c, t) : c \in Chats, t \in {<<"hello">>, <<"/", "reset">>}}
    \cup {FeishuText("c1", t) : t \in {<<" ", "hello", " ">>, <<" ">>, <<"/", "status">>,
                                        <<"/", "help">>, <<"/", "foo">>}}
    \cup {Event("c1", "image", "text", <<>>, FALSE, FALSE),
          Event("c1", "text", "bad", <<>>, FALSE, FALSE),
          Event("c1", "text", "no_text", <<>>, FALSE, FALSE),
          Event("c1", "text", "text", <<"hello">>, TRUE, FALSE)}

\* Config.DISCORD_COMMAND_PREFIX
Prefix == "!"

\* f"<@{self.user.id}>" and f"<@!{self.user.id}>"
Mention == "<@1>"

MentionNick == "<@!1>"

DiscordMessage(chat_id, text, bot, mentions) ==
    Event(chat_id, "text", "text", text, bot, mentions)

DiscordEvents ==
    {DiscordMessage("c1", <<Mention, " ", "hello">>, FALSE, TRUE),
     DiscordMessage("c1", <<Mention>>, FALSE, TRUE),
     DiscordMessage("c2", <<Prefix, "reset", " ", Mention>>, FALSE, TRUE),
     DiscordMessage("c1", <<Prefix, "ask", " ", "hi", " ", MentionNick>>, FALSE, TRUE),
     DiscordMessage("c1", <<"hello">>, FALSE, FALSE),
     DiscordMessage("c1", <<Prefix, "reset">>, FALSE, FALSE),
     DiscordMessage("c1", <<Prefix, "ask">>, FALSE, FALSE),
     DiscordMessage("c1", <<Prefix, "foo">>, FALSE, FALSE),
     DiscordMessage("c1", <<Prefix, " ", "reset">>, FALSE, FALSE),
     DiscordMessage("c1", <<Mention, " ", "hello">>, TRUE, TRUE)}

(***************************************************************************)
(* AgentClient                                                             *)
(***************************************************************************)
\* What self.client.messages.create does: it returns a response whose first
\* content block holds text, or it raises an error with a description.
ApiOutcomes ==
    {[ok |-> TRUE, text |-> t] : t \in {<<"hi", " ", "there">>, <<>>}}
    \cup {[ok |-> FALSE, text |-> <<"Connection error.">>]}

\* query_stream: the Messages it yields, in order, for the outcome of its
\* request: Message(text), or Message(f"Error: {str(e)}").
query_stream(outcome) ==
    IF outcome.ok THEN <<[content |-> outcome.text]>>
    ELSE <<[content |-> <<"Error: ">> \o outcome.text]>>

\* _extract_text on a message whose content is a str.
_extract_text(message) ==
    IF "content" \in DOMAIN message THEN message.content ELSE <<>>

\* Config.get_agent_config()['model']
Model == "glm-4.7"

(***************************************************************************)
(* Handling of one inbound event                                           *)
(***************************************************************************)
\* pc: "dropped" (the handler returned without acting), "command", "flush", "cmd_send", "cmd_error_send",
\* "processing", "typing", "await", "reply", "error_reply", "done",
\* "crashed" (the handler ended with an exception nothing caught).
NewTask ==
    [pc |-> "dropped", via |-> "", prompt |-> <<>>, session_id |-> None,
     response_text |-> <<>>, out |-> <<>>, in_body |-> FALSE,
     sent |-> <<>>, queries |-> 0, calls |-> <<>>, results |-> <<>>, yielded |-> <<>>]

Ids == 1..Len(msgs)

MaxSendFailures == 2

\* The outcomes of one delivery attempt: it succeeds, or (while the run's
\* budget of failures lasts) it fails.
SendOutcomes == IF failures < MaxSendFailures THEN BOOLEAN ELSE {TRUE}

AfterSend(ok) == IF ok THEN failures ELSE failures + 1

\* One delivery attempt to the platform's send API.
Sent(t, chat_id, text, ok) ==
    Append(t.sent, [chat_id |-> chat_id, text |-> text, ok |-> ok])

Processing == <<"Processing...">>

SessionCleared == <<"Session cleared.">>

HelpText == <<"Disclaude Bot\n\nCommands:\n...">>

UnknownCommand(text) == <<"Unknown command: ">> \o text

StatusText(session_id) ==
    <<"Model: ", Model, "\nSession: ", IF session_id # None THEN "Active" ELSE "None">>

ErrorText(e) == <<"Error: ">> \o e

\* A finished exchange is dropped: the record of what the turn did is kept
\* only until the turn has ended, before the loop runs anything else.
Finished(t) == t.pc \in {"done", "dropped", "crashed"}

Forgotten == [NewTask EXCEPT !.pc = "forgotten"]

NoEvent == Event("", "", "", <<>>, FALSE, FALSE)

Settled == \A m \in Ids : ~Finished(tasks[m])

\* The task record of a newly delivered event, set to r by its handler.
Deliver(e, r) ==
    /\ started
    /\ exit_code = <<>>
    /\ Settled
    /\ Len(msgs) < MaxMsgs
    /\ msgs' = Append(msgs, e)
    /\ tasks' = Append(tasks, r)

(***************************************************************************)
(* FeishuBot. The handler and the tasks it creates run on one event loop;  *)
(* _send_message, the store and the completion call never suspend, so a    *)
(* task keeps the loop's thread from its first step to its last.           *)
(***************************************************************************)
\* A dispatch that knows no commands: every text is a prompt.
FeishuDispatch_prompts(e, running) ==
    LET text == strip(IF e.json = "text" THEN e.text ELSE <<>>)
    IN  IF ~running \/ e.message_type # "text" \/ e.json = "bad" \/ text = <<>>
        THEN [pc |-> "dropped", text |-> <<>>]
        ELSE [pc |-> "processing", text |-> text]

\* A dispatch that never looks at the running flag.
FeishuDispatch_always(e, running) ==
    LET text == strip(IF e.json = "text" THEN e.text ELSE <<>>)
    IN  IF e.message_type # "text" \/ e.json = "bad" \/ text = <<>>
        THEN [pc |-> "dropped", text |-> <<>>]
        ELSE IF startswith(text, "/")
        THEN [pc |-> "command", text |-> text]
        ELSE [pc |-> "processing", text |-> text]

\* What handle_message_receive_v1 schedules for event e: the task's pc and text.
FeishuDispatch(e, running) ==
    LET text == strip(IF e.json = "text" THEN e.text ELSE <<>>)
    IN  IF ~running \/ e.message_type # "text" \/ e.json = "bad" \/ text = <<>>
        THEN [pc |-> "dropped", text |-> <<>>]
        ELSE IF startswith(text, "/")
        THEN [pc |-> "command", text |-> text]
        ELSE [pc |-> "processing", text |-> text]

\* The websocket client hands event e to the handler, on the loop's thread.
handle_message_receive_v1(e) ==
    /\ platform = "feishu"
    /\ cpu = 0
    /\ LET d == FeishuDispatch(e, _running)
       IN  Deliver(e, [NewTask EXCEPT !.pc = d.pc, !.prompt = d.text])
    /\ UNCHANGED <<failures, platform, started, _running, conversation_history, cpu, config, exit_code, config_call, request>>
    /\ UNCHANGED storeVars

\* The loop starts the tasks the handler created in the order it created
\* them (its ready queue is first in, first out).
FeishuTurn(m) == \A k \in 1..(m - 1) : tasks[k].pc \notin {"command", "processing"}

\* _handle_command up to its _send_message (for /reset and /clear with a
\* session: up to the save_to_file inside clear_session).
_handle_command(m) ==
    /\ platform = "feishu"
    /\ tasks[m].pc = "command"
    /\ Settled
    /\ FeishuTurn(m)
    /\ cpu = 0
    /\ cpu' = m
    /\ LET text == tasks[m].prompt
           chat_id == msgs[m].chat_id
       IN  IF text = <<"/", "reset">> \/ text = <<"/", "clear">>
           THEN /\ clear_session(chat_id)
                /\ tasks' = [tasks EXCEPT ![m] = [@ EXCEPT
                       !.pc = IF chat_id \in DOMAIN _sessions THEN "flush" ELSE "cmd_send",
                       !.out = SessionCleared]]
           ELSE /\ tasks' = [tasks EXCEPT ![m] = [@ EXCEPT
                       !.pc = "cmd_send",
                       !.session_id = IF text = <<"/", "status">>
                                      THEN get_session_id(_sessions, chat_id) ELSE @,
                       !.out = IF text = <<"/", "status">>
                               THEN StatusText(get_session_id(_sessions, chat_id))
                               ELSE IF text = <<"/", "help">> THEN HelpText
                               ELSE UnknownCommand(text)]]
                /\ UNCHANGED storeVars
    /\ UNCHANGED <<failures, platform, started, _running, conversation_history, msgs, config, exit_code, config_call, request>>

\* The save_to_file that ends clear_session inside _handle_command.
FeishuFlush(m) ==
    /\ platform = "feishu"
    /\ tasks[m].pc = "flush"
    /\ Settled
    /\ cpu = m
    /\ \E o \in SaveOutcomes : flush(o)
    /\ tasks' = [tasks EXCEPT ![m] = [@ EXCEPT !.pc = "cmd_send"]]
    /\ UNCHANGED <<failures, platform, started, _running, conversation_history, msgs, cpu, config, exit_code, config_call, request>>

\* A query_stream that sends its request a second time.
messages_create_again(t) ==
    [t EXCEPT !.pc = "await", !.calls = Append(Append(@, t.prompt), t.prompt)]

\* query_stream enters self.client.messages.create with the prompt: a
\* synchronous call, the loop's thread stays in it until the API answers.
messages_create(t) == [t EXCEPT !.pc = "await", !.calls = Append(@, t.prompt)]

\* A _send_message that cuts the text down to its first piece.
_send_message_clipped(t, chat_id, text, ok) ==
    [t EXCEPT !.sent = Sent(t, chat_id, SubSeq(text, 1, 1), ok)]

\* _send_message: one attempt; a failure is logged and goes no further.
_send_message(t, chat_id, text, ok) == [t EXCEPT !.sent = Sent(t, chat_id, text, ok)]

\* The _send_message that ends _handle_command.
FeishuCommandSend(m) ==
    /\ platform = "feishu"
    /\ tasks[m].pc = "cmd_send"
    /\ Settled
    /\ cpu = m
    /\ cpu' = 0
    /\ \E ok \in SendOutcomes :
        /\ failures' = AfterSend(ok)
        /\ tasks' = [tasks EXCEPT ![m] =
                       [_send_message(@, msgs[m].chat_id, tasks[m].out, ok) EXCEPT !.pc = "done"]]
    /\ UNCHANGED <<platform, started, _running, conversation_history, msgs, config, exit_code, config_call, request>>
    /\ UNCHANGED storeVars

\* FeishuBot._process_agent_message into the completion call: the
\* "Processing..." message, the session lookup and the API request.
FeishuProcessing(m) ==
    /\ platform = "feishu"
    /\ tasks[m].pc = "processing"
    /\ Settled
    /\ FeishuTurn(m)
    /\ cpu = 0
    /\ cpu' = m
    /\ \E ok \in SendOutcomes :
        /\ failures' = AfterSend(ok)
        /\ tasks' = [tasks EXCEPT ![m] =
                       messages_create([_send_message(@, msgs[m].chat_id, Processing, ok) EXCEPT
                           !.session_id = get_session_id(_sessions, msgs[m].chat_id),
                           !.queries = @ + 1])]
    /\ UNCHANGED <<platform, started, _running, conversation_history, msgs, config, exit_code, config_call, request>>
    /\ UNCHANGED storeVars

\* "async for message in query_stream(...)": the texts of the messages,
\* each that is not empty added to response_text.
RECURSIVE Accumulate(_)
Accumulate(messages) ==
    IF messages = <<>> THEN <<>>
    ELSE _extract_text(Head(messages)) \o Accumulate(Tail(messages))

\* The text accumulated from the messages query_stream yields.
ResponseText(outcome) == Accumulate(query_stream(outcome))

\* The API call returns or raises; FeishuBot accumulates the yielded text.
FeishuReturn(m) ==
    /\ platform = "feishu"
    /\ tasks[m].pc = "await"
    /\ Settled
    /\ cpu = m
    /\ \E o \in ApiOutcomes :
        LET text == ResponseText(o)
        IN  /\ tasks' = [tasks EXCEPT ![m] = [@ EXCEPT
                   !.pc = IF text # <<>> THEN "reply" ELSE "done",
                   !.response_text = text,
                   !.results = Append(@, o),
                   !.yielded = Append(@, query_stream(o))]]
            /\ cpu' = IF text # <<>> THEN m ELSE 0
    /\ UNCHANGED <<failures, platform, started, _running, conversation_history, msgs, config, exit_code, config_call, request>>
    /\ UNCHANGED storeVars

\* if response_text: await self._send_message(chat_id, response_text)
FeishuReply(m) ==
    /\ platform = "feishu"
    /\ tasks[m].pc = "reply"
    /\ Settled
    /\ cpu = m
    /\ cpu' = 0
    /\ \E ok \in SendOutcomes :
        /\ failures' = AfterSend(ok)
        /\ tasks' = [tasks EXCEPT ![m] =
                       [_send_message(@, msgs[m].chat_id, tasks[m].response_text, ok) EXCEPT !.pc = "done"]]
    /\ UNCHANGED <<platform, started, _running, conversation_history, msgs, config, exit_code, config_call, request>>
    /\ UNCHANGED storeVars

(***************************************************************************)
(* DiscordBot. on_message runs as one task per message; it suspends at     *)
(* every ctx.send, message.reply and channel.typing(), where other tasks   *)
(* run, and nowhere else.                                                  *)
(***************************************************************************)
\* The commands registered on the bot: the DiscordCommands cog and the
\* DefaultHelpCommand given to commands.Bot.
Commands == {"ask", "reset", "ping", "info", "help"}

\* process_commands: the word that follows the prefix ("" when the content
\* does not start with the prefix or a blank follows it).
invoker(content) ==
    IF startswith(content, Prefix) /\ Len(content) >= 2 /\ content[2] # " "
    THEN content[2] ELSE ""

\* The rest of the content after the invoked word, as the "*, question"
\* parameter of ask receives it.
rest(content) == strip(SubSeq(content, 3, Len(content)))

\* on_message: the content with both mention forms removed.
clean_message(content) == strip(remove(strip(remove(content, Mention)), MentionNick))

\* on_message after process_commands: "if self.user in message.mentions".
MentionBranch(t, e) ==
    IF e.mentions /\ clean_message(e.text) # <<>>
    THEN [t EXCEPT !.pc = "typing", !.via = "mention", !.prompt = clean_message(e.text)]
    ELSE [t EXCEPT !.pc = "done"]

\* Where on_message goes on when a _process_agent_message call has returned.
AfterProcess(t, e) == IF t.via = "command" THEN MentionBranch(t, e) ELSE [t EXCEPT !.pc = "done"]

HistoryCleared == <<"Conversation history cleared!">>

Pong == <<"Pong! Latency: ", "ms">>

InfoText == <<"**Disclaude** - Discord x Agent\n\n...", Model>>

DefaultHelp == <<"No Category:\n  help ...">>

MissingArgument == <<"Missing required argument: ", "question">>

CommandFailed == <<"An error occurred while processing that command.">>

\* str(e) of the exception a failed ctx.send or message.reply raises.
SendError == <<"400 Bad Request">>

\* The text a command other than ask sends with ctx.send.
CommandText(name) ==
    CASE name = "reset" -> HistoryCleared
      [] name = "ping" -> Pong
      [] name = "info" -> InfoText
      [] name = "help" -> DefaultHelp

\* on_message up to its first suspension: the bot check, process_commands
\* up to the command's first await, and (when no command runs) the mention
\* branch. An unknown command raises CommandNotFound, which
\* on_command_error ignores.
on_message(e) ==
    /\ platform = "discord"
    /\ cpu = 0
    /\ LET name == invoker(e.text)
           t == NewTask
       IN  IF e.bot
           THEN /\ Deliver(e, [t EXCEPT !.pc = "dropped"])
                /\ UNCHANGED conversation_history
           ELSE IF name \notin Commands
           THEN /\ Deliver(e, MentionBranch(t, e))
                /\ UNCHANGED conversation_history
           ELSE IF name = "ask"
           THEN /\ Deliver(e, IF rest(e.text) = <<>>
                              THEN [t EXCEPT !.pc = "cmd_send", !.out = MissingArgument,
                                             !.in_body = FALSE]
                              ELSE [t EXCEPT !.pc = "typing", !.via = "command",
                                             !.prompt = rest(e.text)])
                /\ UNCHANGED conversation_history
           ELSE /\ Deliver(e, [t EXCEPT !.pc = "cmd_send", !.out = CommandText(name),
                                        !.in_body = TRUE])
                /\ conversation_history' =
                       IF name = "reset" THEN del_item(conversation_history, e.chat_id)
                       ELSE conversation_history
    /\ UNCHANGED <<failures, platform, started, _running, cpu, config, exit_code, config_call, request>>
    /\ UNCHANGED storeVars

\* A command's ctx.send (or on_command_error's, for a missing argument). A
\* send that raises inside a command body reaches on_command_error.
DiscordCommandSend(m) ==
    /\ platform = "discord"
    /\ tasks[m].pc = "cmd_send"
    /\ Settled
    /\ cpu = 0
    /\ \E ok \in SendOutcomes :
        /\ failures' = AfterSend(ok)
        /\ LET t == [tasks[m] EXCEPT !.sent = Sent(tasks[m], msgs[m].chat_id, tasks[m].out, ok)]
           IN  tasks' = [tasks EXCEPT ![m] =
                   IF ok \/ ~t.in_body THEN MentionBranch(t, msgs[m])
                   ELSE [t EXCEPT !.pc = "cmd_error_send"]]
    /\ UNCHANGED <<platform, started, _running, conversation_history, msgs, cpu, config, exit_code, config_call, request>>
    /\ UNCHANGED storeVars

\* on_command_error for an error other than CommandNotFound and
\* MissingRequiredArgument: one ctx.send; if that raises too, the event
\* runner logs it.
on_command_error(m) ==
    /\ platform = "discord"
    /\ tasks[m].pc = "cmd_error_send"
    /\ Settled
    /\ cpu = 0
    /\ \E ok \in SendOutcomes :
        /\ failures' = AfterSend(ok)
        /\ LET t == [tasks[m] EXCEPT !.sent = Sent(tasks[m], msgs[m].chat_id, CommandFailed, ok)]
           IN  tasks' = [tasks EXCEPT ![m] = MentionBranch(t, msgs[m])]
    /\ UNCHANGED <<platform, started, _running, conversation_history, msgs, cpu, config, exit_code, config_call, request>>
    /\ UNCHANGED storeVars

\* DiscordBot._process_agent_message resumes from entering
\* channel.typing(): the history lookup and the API request.
DiscordTyping(m) ==
    /\ platform = "discord"
    /\ tasks[m].pc = "typing"
    /\ Settled
    /\ cpu = 0
    /\ cpu' = m
    /\ tasks' = [tasks EXCEPT ![m] = messages_create([@ EXCEPT
           !.response_text = <<>>,
           !.session_id = get_session_id(conversation_history, msgs[m].chat_id),
           !.queries = @ + 1])]
    /\ UNCHANGED <<failures, platform, started, _running, conversation_history, msgs, config, exit_code, config_call, request>>
    /\ UNCHANGED storeVars

\* The API call returns or raises; DiscordBot accumulates the yielded text.
DiscordReturn(m) ==
    /\ platform = "discord"
    /\ tasks[m].pc = "await"
    /\ Settled
    /\ cpu = m
    /\ cpu' = 0
    /\ \E o \in ApiOutcomes :
        LET text == ResponseText(o)
            t == [tasks[m] EXCEPT !.response_text = text, !.results = Append(@, o),
                                  !.yielded = Append(@, query_stream(o))]
        IN  tasks' = [tasks EXCEPT ![m] =
                IF text # <<>> THEN [t EXCEPT !.pc = "reply"] ELSE AfterProcess(t, msgs[m])]
    /\ UNCHANGED <<failures, platform, started, _running, conversation_history, msgs, config, exit_code, config_call, request>>
    /\ UNCHANGED storeVars

\* if response_text: await message.reply(response_text); a reply that
\* raises is caught by "except Exception".
DiscordReply(m) ==
    /\ platform = "discord"
    /\ tasks[m].pc = "reply"
    /\ Settled
    /\ cpu = 0
    /\ \E ok \in SendOutcomes :
        /\ failures' = AfterSend(ok)
        /\ LET t == [tasks[m] EXCEPT !.sent = Sent(tasks[m], msgs[m].chat_id, tasks[m].response_text, ok)]
           IN  tasks' = [tasks EXCEPT ![m] =
                   IF ok THEN AfterProcess(t, msgs[m]) ELSE [t EXCEPT !.pc = "error_reply"]]
    /\ UNCHANGED <<platform, started, _running, conversation_history, msgs, cpu, config, exit_code, config_call, request>>
    /\ UNCHANGED storeVars

\* except Exception as e: await message.reply(f"Error: {e}"). If this reply
\* raises, the exception leaves _process_agent_message: inside the ask
\* command it reaches on_command_error, in the mention branch it ends
\* on_message.
DiscordErrorReply(m) ==
    /\ platform = "discord"
    /\ tasks[m].pc = "error_reply"
    /\ Settled
    /\ cpu = 0
    /\ \E ok \in SendOutcomes :
        /\ failures' = AfterSend(ok)
        /\ LET t == [tasks[m] EXCEPT !.sent = Sent(tasks[m], msgs[m].chat_id, ErrorText(SendError), ok)]
           IN  tasks' = [tasks EXCEPT ![m] =
                   IF ok THEN AfterProcess(t, msgs[m])
                   ELSE IF t.via = "command" THEN [t EXCEPT !.pc = "cmd_error_send"]
                   ELSE [t EXCEPT !.pc = "crashed"]]
    /\ UNCHANGED <<platform, started, _running, conversation_history, msgs, cpu, config, exit_code, config_call, request>>
    /\ UNCHANGED storeVars

(***************************************************************************)
(* The process                                                             *)
(***************************************************************************)
\* main() once Config.validate has returned True: run_feishu or run_discord
\* creates the AgentClient and the bot, then FeishuBot.start up to the
\* websocket client's start (load_from_file and self._running = True), or
\* for Discord bot.start(token).
start ==
    /\ ~started
    /\ exit_code = <<>>
    /\ validate(config) = <<>>
    /\ Settled
    /\ started' = TRUE
    /\ IF platform = "feishu"
       THEN /\ _sessions' = load_from_file(file, _sessions)
            /\ last' = Completed("load", "", "", "none", FALSE, None)
            /\ _running' = TRUE
       ELSE UNCHANGED <<_sessions, last, _running>>
    /\ UNCHANGED <<failures, file, _lock, storeOp, platform, conversation_history, msgs, tasks, cpu, config, exit_code, config_call, request>>

\* FeishuBot.stop, and the finally of run_ws_client: they run on the main
\* thread, whatever the websocket client's loop is doing.
stop ==
    /\ platform = "feishu"
    /\ _running
    /\ Settled
    /\ _running' = FALSE
    /\ UNCHANGED <<failures, platform, started, conversation_history, msgs, tasks, cpu, config, exit_code, config_call, request>>
    /\ UNCHANGED storeVars

\* main(): run_feishu creates the SessionManager; run_discord creates none,
\* and the persistence file plays no part.
Init ==
    /\ SessionManagerInit
    /\ config \in RelayConfigs
    /\ platform = config.PLATFORM
    /\ exit_code = <<>>
    /\ config_call = NoCall
    /\ request = NoRequest
    /\ platform # "feishu" => file = NoFile
    /\ platform = "feishu" => file \in RelayFiles
    /\ started = FALSE
    /\ _running = FALSE
    /\ conversation_history = <<>>
    /\ msgs = <<>>
    /\ tasks = <<>>
    /\ cpu = 0
    /\ failures = 0

\* main(): Config.validate raises ValueError; the errors are printed and
\* the process exits, before run_discord or run_feishu is reached.
configuration_error ==
    /\ exit_code = <<>>
    /\ ~started
    /\ validate(config) # <<>>
    /\ exit_code' = <<ExitCode("configuration error")>>
    /\ UNCHANGED <<platform, started, _running, conversation_history, msgs, tasks, cpu,
                   failures, config, config_call, request>>
    /\ UNCHANGED storeVars

\* Ctrl-C while the relay runs: KeyboardInterrupt leaves asyncio.run(main())
\* (on Feishu after the finally of FeishuBot.start has run stop) and the
\* process ends; what it held in memory is gone, the file stays.
KeyboardInterrupt ==
    /\ exit_code = <<>>
    /\ started
    /\ platform = "feishu" => ~_running
    /\ exit_code' = <<ExitCode("KeyboardInterrupt")>>
    /\ _sessions' = <<>>
    /\ storeOp' = NoOp
    /\ last' = Completed("init", "", "", "none", FALSE, None)
    /\ conversation_history' = <<>>
    /\ msgs' = <<>>
    /\ tasks' = <<>>
    /\ cpu' = 0
    /\ failures' = 0
    /\ UNCHANGED <<file, _lock, platform, started, _running, config, config_call, request>>

Forget(m) ==
    /\ Finished(tasks[m])
    /\ tasks' = [tasks EXCEPT ![m] = Forgotten]
    /\ msgs' = [msgs EXCEPT ![m] = NoEvent]
    /\ UNCHANGED <<failures, platform, started, _running, conversation_history, cpu, config, exit_code, config_call, request>>
    /\ UNCHANGED storeVars

Next ==
    \/ start
    \/ stop
    \/ configuration_error
    \/ KeyboardInterrupt
    \/ \E e \in FeishuEvents : handle_message_receive_v1(e)
    \/ \E m \in Ids : _handle_command(m)
    \/ \E m \in Ids : FeishuFlush(m)
    \/ \E m \in Ids : FeishuCommandSend(m)
    \/ \E m \in Ids : FeishuProcessing(m)
    \/ \E m \in Ids : FeishuReturn(m)
    \/ \E m \in Ids : FeishuReply(m)
    \/ \E e \in DiscordEvents : on_message(e)
    \/ \E m \in Ids : DiscordCommandSend(m)
    \/ \E m \in Ids : on_command_error(m)
    \/ \E m \in Ids : DiscordTyping(m)
    \/ \E m \in Ids : DiscordReturn(m)
    \/ \E m \in Ids : DiscordReply(m)
    \/ \E m \in Ids : DiscordErrorReply(m)
    \/ \E m \in Ids : Forget(m)

Spec == Init /\ [][Next]_vars

(***************************************************************************)
(* Properties of the relay (checked under Spec)                            *)
(***************************************************************************)
\* The text of a Feishu event as the handler reads it.
FeishuTextOf(e) ==
    IF e.message_type = "text" /\ e.json = "text" THEN strip(e.text) ELSE <<>>

\* Event e is a command: its text matches the platform's command prefix and
\* (on Discord) invokes a registered command other than ask, whose job is
\* to put a question to the model.
InvokesCommand(e) ==
    IF platform = "feishu" THEN startswith(FeishuTextOf(e), "/")
    ELSE ~e.bot /\ invoker(e.text) \in Commands \ {"ask"}

\* C5, as stated: an inbound message that is a command never causes a
\* completion call, whatever else the message contains.
C5_CommandsNeverReachModel ==
    \A m \in Ids : InvokesCommand(msgs[m]) => tasks[m].calls = <<>>

\* The deliveries of task t that carry a text the model returned to it.
ModelReplies(t) ==
    {i \in DOMAIN t.sent :
        \E k \in DOMAIN t.results :
            ResponseText(t.results[k]) # <<>> /\ t.sent[i].text = ResponseText(t.results[k])}

\* C6, as stated: each inbound message makes at most one completion call and
\* gets at most one model reply.
C6_AtMostOneExchange ==
    \A m \in Ids :
        /\ Len(tasks[m].calls) <= 1
        /\ Cardinality(ModelReplies(tasks[m])) <= 1

\* Event e is a non-empty text that is no command and that the relay passes
\* to the model.
PlainPrompt(e) ==
    IF platform = "feishu"
    THEN FeishuTextOf(e) # <<>> /\ ~startswith(FeishuTextOf(e), "/")
    ELSE ~e.bot /\ ~startswith(e.text, Prefix) /\ e.mentions /\ clean_message(e.text) # <<>>

\* The turn of message m has ended, it was a plain prompt on a conversation
\* without a session, and the model returned a non-empty text for it.
AnsweredTurn(m) ==
    /\ Finished(tasks[m])
    /\ PlainPrompt(msgs[m])
    /\ tasks[m].session_id = None
    /\ Len(tasks[m].results) = 1
    /\ ResponseText(tasks[m].results[1]) # <<>>

\* Delivery i of task m went to the conversation of m with text T.
SendIs(m, i, T) ==
    /\ i \in DOMAIN tasks[m].sent
    /\ tasks[m].sent[i].chat_id = msgs[m].chat_id
    /\ tasks[m].sent[i].text = T

\* C7, as stated: when the model returns T for a plain prompt on conversation
\* c without a session, the turn makes exactly one delivery, send(c, T).
C7_ExactlyOneSend ==
    \A m \in Ids :
        AnsweredTurn(m) =>
            /\ Len(tasks[m].sent) = 1
            /\ SendIs(m, 1, ResponseText(tasks[m].results[1]))

\* C7, amended: when the model returns a non-empty T for a plain prompt on
\* conversation c without a session, exactly one delivery of the turn carries
\* T, unmodified and to c. On Feishu it is the second of exactly two
\* deliveries to c, after "Processing...". On Discord it is the first, and
\* the only one unless that delivery raised: then one more message,
\* "Error: <the delivery error>", is sent to c.
C7_ReplyDeliveredOnce ==
    \A m \in Ids :
        AnsweredTurn(m) =>
            LET T == ResponseText(tasks[m].results[1])
                n == Len(tasks[m].sent)
            IN  IF platform = "feishu"
                THEN n = 2 /\ SendIs(m, 1, Processing) /\ SendIs(m, 2, T)
                ELSE /\ SendIs(m, 1, T)
                     /\ \/ n = 1
                        \/ /\ n = 2
                           /\ ~tasks[m].sent[1].ok
                           /\ SendIs(m, 2, ErrorText(SendError))

C7_Witness ==
    \E m \in Ids :
        /\ platform = "feishu"
        /\ AnsweredTurn(m)
        /\ tasks[m].response_text = <<"hi", " ", "there">>
        /\ tasks[m].sent[2].ok

\* C8, as stated: when the completion call of a turn fails, the turn's task
\* does not end with an exception nothing handles, and a message whose text
\* contains the failure description is handed to the conversation.
C8_CompletionFailureHandled ==
    \A m \in Ids :
        \A k \in DOMAIN tasks[m].results :
            (Finished(tasks[m]) /\ ~tasks[m].results[k].ok) =>
                /\ tasks[m].pc # "crashed"
                /\ \E i \in DOMAIN tasks[m].sent :
                        /\ tasks[m].sent[i].chat_id = msgs[m].chat_id
                        /\ contains(tasks[m].sent[i].text, tasks[m].results[k].text)

\* Some inbound event is handled in this step.
InboundHandled ==
    \/ \E e \in FeishuEvents : handle_message_receive_v1(e)
    \/ \E e \in DiscordEvents : on_message(e)

InFlight == {m \in Ids : tasks[m].pc = "await"}

\* C9, as stated: while a completion call is in progress, the process can
\* still handle an inbound event.
C9_CallBlocksOnlyItsTask ==
    (InFlight # {} /\ started /\ Settled /\ Len(msgs) < MaxMsgs) => ENABLED InboundHandled

\* Event e starts with the command prefix and names no recognized command.
UnknownCommandMessage(e) ==
    IF platform = "feishu"
    THEN /\ startswith(FeishuTextOf(e), "/")
         /\ FeishuTextOf(e) \notin {<<"/", w>> : w \in {"reset", "clear", "status", "help"}}
    ELSE ~e.bot /\ startswith(e.text, Prefix) /\ invoker(e.text) \notin Commands

IsUnknownReply(text) == text # <<>> /\ Head(text) = "Unknown command: "

\* C10, as stated: every unknown command the relay took in has, when its
\* turn ends, been answered with an "unknown command" message to its
\* conversation.
C10_UnknownCommandAnswered ==
    \A m \in Ids :
        (Finished(tasks[m]) /\ tasks[m].pc # "dropped" /\ UnknownCommandMessage(msgs[m])) =>
            \E i \in DOMAIN tasks[m].sent :
                /\ tasks[m].sent[i].chat_id = msgs[m].chat_id
                /\ IsUnknownReply(tasks[m].sent[i].text)

\* C10, amended: on Feishu an unknown command taken in by the running bot
\* gets exactly one delivery attempt, "Unknown command: <text>" to its
\* conversation, and no completion call. On Discord an unknown command is
\* never answered with an "unknown command" message: CommandNotFound is
\* ignored, and nothing at all is sent unless the message also mentions the
\* bot (its text then goes to the model as a prompt).
C10_UnknownCommandFeishuOnly ==
    \A m \in Ids :
        (Finished(tasks[m]) /\ tasks[m].pc # "dropped" /\ UnknownCommandMessage(msgs[m])) =>
            IF platform = "feishu"
            THEN /\ Len(tasks[m].sent) = 1
                 /\ SendIs(m, 1, <<"Unknown command: ">> \o FeishuTextOf(msgs[m]))
                 /\ tasks[m].calls = <<>>
            ELSE /\ \A i \in DOMAIN tasks[m].sent : ~IsUnknownReply(tasks[m].sent[i].text)
                 /\ ~msgs[m].mentions => tasks[m].sent = <<>> /\ tasks[m].calls = <<>>

C10_Witness ==
    \E m \in Ids :
        /\ platform = "feishu"
        /\ tasks[m].pc = "done"
        /\ UnknownCommandMessage(msgs[m])
        /\ tasks[m].sent # <<>>
        /\ tasks[m].sent[1].ok

\* Event e is a reset command: /reset or /clear on Feishu, the reset command
\* on Discord.
IsReset(e) ==
    IF platform = "feishu"
    THEN FeishuTextOf(e) \in {<<"/", "reset">>, <<"/", "clear">>}
    ELSE ~e.bot /\ invoker(e.text) = "reset"

\* The session the relay finds for conversation c.
SessionOf(c) ==
    IF platform = "feishu" THEN get_session_id(_sessions, c)
    ELSE get_session_id(conversation_history, c)

\* The message that confirms a reset.
Confirmation == IF platform = "feishu" THEN SessionCleared ELSE HistoryCleared

\* C11: when a reset/clear command for conversation c has been handled, the
\* relay finds no session for c, whatever c had before, and exactly one
\* confirmation message has been handed to the sink for c.
C11_ResetClearsSession ==
    \A m \in Ids :
        (Finished(tasks[m]) /\ tasks[m].pc # "dropped" /\ IsReset(msgs[m])) =>
            /\ SessionOf(msgs[m].chat_id) = None
            /\ Cardinality({i \in DOMAIN tasks[m].sent : SendIs(m, i, Confirmation)}) = 1

C11_Witness ==
    \E m \in Ids :
        /\ platform = "feishu"
        /\ tasks[m].pc = "done"
        /\ IsReset(msgs[m])
        /\ last.name = "clear"
        /\ last.chat_id = msgs[m].chat_id
        /\ last.wrote = "failed"
        /\ file.kind = "object"
        /\ msgs[m].chat_id \in DOMAIN file.items

(***************************************************************************)
(* More properties of the SessionManager (checked under StoreSpec)         *)
(***************************************************************************)
\* The session id file f holds for chat id k.
FileGet(f, k) == get_session_id(load_from_file(f, <<>>), k)

\* This step leaves every chat id but c with the session id it had in memory.
OthersKept(c) ==
    \A k \in Chats \ {c} : get_session_id(_sessions', k) = get_session_id(_sessions, k)

\* This step leaves every chat id but c with the session id it had in the file.
FileOthersKept(c) == \A k \in Chats \ {c} : FileGet(file', k) = FileGet(file, k)

\* What a step that begins clear_session(c) does: nothing for an absent c;
\* for a present c it removes c alone from memory, the file being written
\* by the flush that follows.
ClearBegins(c) ==
    clear_session(c) =>
        IF c \notin DOMAIN _sessions
        THEN _sessions' = _sessions /\ file' = file /\ ~last'.raised
        ELSE c \notin DOMAIN _sessions' /\ OthersKept(c) /\ file' = file

\* This step is the save_to_file that ends a clear_session.
ClearEnds == storeOp.name = "clear" /\ storeOp' = NoOp

\* C12, as stated: clear_session(id) on an absent id changes neither memory
\* nor the file; on a present id it removes that key alone, every other id
\* keeping its session id in memory and in the file.
C12_ClearTouchesOnlyItsId ==
    [][/\ \A c \in Chats : ClearBegins(c)
       /\ ClearEnds => _sessions' = _sessions /\ FileOthersKept(storeOp.chat_id)]_vars

\* C12, amended: clear_session(id) on an absent id changes neither memory
\* nor the file; on a present id it removes that key alone from memory, and
\* then rewrites the whole file from memory. After a successful write the
\* file holds exactly the mapping in memory, so another id keeps its file
\* entry only if the file agreed with memory on it; a failed write leaves
\* the file as it was or truncated, which loses every id.
C12_ClearRewritesFile ==
    [][/\ \A c \in Chats : ClearBegins(c)
       /\ ClearEnds =>
            /\ _sessions' = _sessions
            /\ ~last'.raised
            /\ IF last'.wrote = "ok"
               THEN /\ file' = json_dump(_sessions)
                    /\ (\A k \in Chats \ {storeOp.chat_id} :
                            FileGet(file, k) = get_session_id(_sessions, k))
                       => FileOthersKept(storeOp.chat_id)
               ELSE file' \in {file, Garbage}]_vars

C12_Witness ==
    /\ storeOp = NoOp
    /\ last.name = "clear"
    /\ last.wrote = "ok"
    /\ last.chat_id = "c1"
    /\ DOMAIN _sessions = {"c2"}
    /\ FileGet(file, "c2") = _sessions["c2"]

\* A load_from_file has just returned to its caller.
Loaded == storeOp = NoOp /\ last.name = "load"

\* C13, as stated: load_from_file on a missing or malformed file leaves the
\* manager with an empty mapping, whatever the mapping was before, and
\* raises nothing.
C13_LoadOfBadFileEmpties ==
    (Loaded /\ file.kind # "object") => _sessions = <<>> /\ ~last.raised

\* C13, amended: load_from_file never raises. On a malformed file (not JSON,
\* or JSON that is no object) it leaves an empty mapping, whatever the
\* mapping was before. On a missing file it leaves the mapping as it was:
\* empty on a fresh manager, as at startup, and otherwise unchanged.
C13_LoadKeepsOrEmpties ==
    [][ApiLoad =>
        /\ ~last'.raised
        /\ file.kind \in {"garbage", "array"} => _sessions' = <<>>
        /\ file.kind = "missing" => _sessions' = _sessions
        /\ (file.kind = "missing" /\ last.name = "init") => _sessions' = <<>>]_vars

C13_Witness == Loaded /\ file.kind = "missing" /\ _sessions # <<>>

(***************************************************************************)
(* More properties of the relay (checked under Spec)                       *)
(***************************************************************************)
\* C14: in every run set_session_id is never invoked, Discord's
\* conversation_history stays empty, and once the relay has started (and
\* loaded) no step gives a conversation a session id other than the one it
\* had: a session can only disappear.
C14_SessionsOnlyShrink ==
    /\ [](storeOp.name # "set" /\ last.name # "set" /\ conversation_history = <<>>)
    /\ [][started =>
            \A k \in Chats :
                get_session_id(_sessions', k) \in {get_session_id(_sessions, k), None}]_vars

C14_Witness ==
    \E m \in Ids :
        /\ platform = "feishu"
        /\ tasks[m].pc = "done"
        /\ Len(tasks[m].results) = 1
        /\ tasks[m].results[1].ok
        /\ Len(tasks[m].sent) = 2
        /\ tasks[m].sent[2].ok
        /\ Cardinality(DOMAIN _sessions) = 1
        /\ msgs[m].chat_id \notin DOMAIN _sessions

\* C15: every query_stream call makes exactly one messages.create request
\* (no second request, whether the first succeeds or fails) and yields
\* exactly one message to its caller.
C15_OneRequestOneMessage ==
    \A m \in Ids :
        LET t == tasks[m]
        IN  /\ Len(t.calls) = t.queries
            /\ Len(t.yielded) = Len(t.results)
            /\ Len(t.results) = IF t.pc = "await" THEN t.queries - 1 ELSE t.queries
            /\ \A k \in DOMAIN t.yielded : Len(t.yielded[k]) = 1

C15_Witness ==
    \E m \in Ids :
        /\ tasks[m].pc = "done"
        /\ tasks[m].queries = 2
        /\ ~tasks[m].results[1].ok
        /\ tasks[m].results[2].ok

\* C16: a process whose configuration fails validation creates no client and
\* no bot, handles and sends nothing, and can only exit, with code 1; a
\* process that exits after its relay has started (an interactive
\* interrupt) exits with code 0.
C16_ExitCodes ==
    /\ [](validate(config) # <<>> =>
            /\ ~started /\ ~_running /\ msgs = <<>> /\ tasks = <<>>
            /\ exit_code \in {<<>>, <<1>>}
            /\ exit_code = <<>> => ENABLED configuration_error)
    /\ [](exit_code = <<1>> => validate(config) # <<>>)
    /\ [][(exit_code = <<>> /\ exit_code' # <<>>) =>
            exit_code' = (IF started THEN <<0>> ELSE <<1>>)]_vars

C16_Witness == exit_code = <<1>> /\ Len(validate(config)) = 2 /\ platform = "feishu"

\* C17, as stated: an inbound message flagged as authored by a bot or the
\* system triggers no command handling, no completion call and no
\* outbound send.
C17_BotMessagesIgnored ==
    \A m \in Ids :
        msgs[m].bot =>
            /\ tasks[m].pc = "dropped"
            /\ tasks[m].calls = <<>>
            /\ tasks[m].sent = <<>>

(***************************************************************************)
(* Properties of get_session_id (checked under StoreSpec)                  *)
(***************************************************************************)
\* C18: get_session_id never raises and changes neither the mapping in
\* memory nor the file; for a chat id that is not in the mapping (never
\* set, not in the loaded file, or cleared) it returns None, and for one
\* that is, its session id.
C18_GetIsPure ==
    /\ [][ApiGet =>
            /\ _sessions' = _sessions /\ file' = file /\ storeOp' = storeOp
            /\ last'.name = "get" /\ ~last'.raised]_vars
    /\ []((storeOp = NoOp /\ last.name = "get") =>
            IF last.chat_id \in DOMAIN _sessions
            THEN last.result = _sessions[last.chat_id]
            ELSE last.result = None)

C18_Witness ==
    /\ storeOp = NoOp
    /\ last.name = "get"
    /\ last.result = None
    /\ _sessions # <<>>
    /\ FileGet(file, last.chat_id) # None

(***************************************************************************)
(* Properties of the relay, continued (checked under Spec)                 *)
(***************************************************************************)
\* The turn of task t is inside its completion call or at an outbound send.
CallingOut(t) ==
    t.pc \in {"await", "reply", "error_reply", "cmd_send", "cmd_error_send"}

\* C19: the SessionManager's lock is never held while a turn is inside its
\* completion call or at an outbound send, so no turn waits for the lock
\* because of another turn's call or send.
C19_LockFreeAcrossCalls ==
    \A m \in Ids : CallingOut(tasks[m]) => ~_lock

C19_Witness ==
    \E m, n \in Ids :
        /\ platform = "feishu"
        /\ msgs[m].chat_id # msgs[n].chat_id
        /\ tasks[m].pc = "await"
        /\ tasks[n].pc = "command"
        /\ IsReset(msgs[n])
        /\ msgs[n].chat_id \in DOMAIN _sessions

\* The messages that are sent only because an earlier delivery raised.
SentBecauseOfFailure == {ErrorText(SendError), CommandFailed}

\* C20, as stated: a failed delivery goes no further. No turn ends with the
\* delivery's exception, no message is sent because a delivery failed, and
\* the turn continues: a prompt whose "Processing..." delivery failed still
\* gets its completion call and the attempt to deliver the reply.
C20_FailedDeliveryContained ==
    \A m \in Ids :
        /\ tasks[m].pc # "crashed"
        /\ \A i \in DOMAIN tasks[m].sent : tasks[m].sent[i].text \notin SentBecauseOfFailure
        /\ (platform = "feishu" /\ tasks[m].pc = "done" /\ PlainPrompt(msgs[m])) =>
                /\ tasks[m].queries = 1
                /\ tasks[m].response_text # <<>> =>
                        SendIs(m, Len(tasks[m].sent), tasks[m].response_text)

(***************************************************************************)
(* Config called on every combination of settings                          *)
(***************************************************************************)
\* What PLATFORM can hold (os.getenv(...).lower(): never None), and what a
\* credential can hold.
Platforms == {"discord", "feishu", "slack", ""}

Credentials == {None, "", "key"}

AllConfigs ==
    {Settings(p, t, i, s, g, a) :
        p \in Platforms, t \in Credentials, i \in Credentials,
        s \in Credentials, g \in Credentials, a \in Credentials}

ConfigInit ==
    /\ SessionManagerInit
    /\ file = NoFile
    /\ config \in AllConfigs
    /\ platform = config.PLATFORM
    /\ exit_code = <<>>
    /\ config_call = NoCall
    /\ request = NoRequest
    /\ started = FALSE
    /\ _running = FALSE
    /\ conversation_history = <<>>
    /\ msgs = <<>>
    /\ tasks = <<>>
    /\ cpu = 0
    /\ failures = 0

CallValidate ==
    /\ config_call' = [name |-> "validate", outcome |-> Config_validate(config)]
    /\ UNCHANGED <<platform, started, _running, conversation_history, msgs, tasks, cpu,
                   failures, config, exit_code, request>>
    /\ UNCHANGED storeVars

CallGetAgentConfig ==
    /\ config_call' = [name |-> "get_agent_config", outcome |-> get_agent_config(config)]
    /\ UNCHANGED <<platform, started, _running, conversation_history, msgs, tasks, cpu,
                   failures, config, exit_code, request>>
    /\ UNCHANGED storeVars

CallGetPlatformInfo ==
    /\ config_call' = [name |-> "get_platform_info", outcome |-> get_platform_info(config)]
    /\ UNCHANGED <<platform, started, _running, conversation_history, msgs, tasks, cpu,
                   failures, config, exit_code, request>>
    /\ UNCHANGED storeVars

ConfigNext ==
    \/ CallValidate
    \/ CallGetAgentConfig
    \/ CallGetPlatformInfo

ConfigSpec == ConfigInit /\ [][ConfigNext]_vars

\* The requirements of a usable configuration, each with the message that
\* reports its violation.
PlatformSettingsPresent(cfg) ==
    \/ cfg.PLATFORM = "discord" /\ ~not(cfg.DISCORD_BOT_TOKEN)
    \/ cfg.PLATFORM = "feishu" /\ ~not(cfg.FEISHU_APP_ID) /\ ~not(cfg.FEISHU_APP_SECRET)

ApiKeyPresent(cfg) == ~not(cfg.GLM_API_KEY) \/ ~not(cfg.ANTHROPIC_API_KEY)

Violated(cfg) ==
    {r \in {"PLATFORM must", "DISCORD_BOT_TOKEN", "FEISHU_APP_ID", "FEISHU_APP_SECRET",
            "API key"} :
        \/ r = "PLATFORM must" /\ cfg.PLATFORM \notin {"discord", "feishu"}
        \/ r = "DISCORD_BOT_TOKEN" /\ cfg.PLATFORM = "discord" /\ not(cfg.DISCORD_BOT_TOKEN)
        \/ r = "FEISHU_APP_ID" /\ cfg.PLATFORM = "feishu" /\ not(cfg.FEISHU_APP_ID)
        \/ r = "FEISHU_APP_SECRET" /\ cfg.PLATFORM = "feishu" /\ not(cfg.FEISHU_APP_SECRET)
        \/ r = "API key" /\ not(cfg.GLM_API_KEY) /\ not(cfg.ANTHROPIC_API_KEY)}

\* The error message begins by naming the requirement r.
Names(message, r) ==
    \/ r = "PLATFORM must" /\ message = "PLATFORM must be 'discord' or 'feishu', got: " \o config.PLATFORM
    \/ r = "DISCORD_BOT_TOKEN" /\ message = "DISCORD_BOT_TOKEN is required when PLATFORM=discord"
    \/ r = "FEISHU_APP_ID" /\ message = "FEISHU_APP_ID is required when PLATFORM=feishu"
    \/ r = "FEISHU_APP_SECRET" /\ message = "FEISHU_APP_SECRET is required when PLATFORM=feishu"
    \/ r = "API key" /\ message = "At least one API key is required: GLM_API_KEY or ANTHROPIC_API_KEY"

\* C21: Config.validate returns True exactly when the platform is discord
\* with a non-empty token, or feishu with a non-empty app id and app secret,
\* and at least one of the two API keys is non-empty; on every other
\* combination it raises ValueError, and the message has one line for every
\* violated requirement and no line for a requirement that is met.
C21_ValidateListsEveryViolation ==
    config_call.name = "validate" =>
        LET outcome == config_call.outcome IN
        /\ ~outcome.raised <=> (PlatformSettingsPresent(config) /\ ApiKeyPresent(config))
        /\ ~outcome.raised => outcome.value = TRUE
        /\ outcome.raised =>
            /\ \A r \in Violated(config) :
                \E i \in 1..Len(outcome.value) : Names(outcome.value[i], r)
            /\ \A i \in 1..Len(outcome.value) :
                \E r \in Violated(config) : Names(outcome.value[i], r)
            /\ Len(outcome.value) = Cardinality(Violated(config))

\* validate has raised on a Feishu configuration that violates three
\* requirements at once, and the message lists the three.
C21_Witness ==
    /\ config_call.name = "validate"
    /\ config_call.outcome.raised
    /\ config.PLATFORM = "feishu"
    /\ Len(config_call.outcome.value) = 3

\* C22: get_agent_config returns the GLM key, model and endpoint whenever
\* GLM_API_KEY is non-empty, ANTHROPIC_API_KEY being set or not; it returns
\* the Anthropic key and model with api_base_url None when only
\* ANTHROPIC_API_KEY is non-empty; it raises only when neither is; so on a
\* configuration validate accepts, neither get_agent_config nor
\* get_platform_info raises.
C22_AgentConfigPrefersGLM ==
    LET outcome == config_call.outcome IN
    /\ config_call.name = "get_agent_config" =>
        /\ ~not(config.GLM_API_KEY) =>
            /\ ~outcome.raised
            /\ outcome.value = [api_key |-> config.GLM_API_KEY, model |-> GLM_MODEL,
                                api_base_url |-> GLM_API_BASE_URL]
        /\ not(config.GLM_API_KEY) /\ ~not(config.ANTHROPIC_API_KEY) =>
            /\ ~outcome.raised
            /\ outcome.value = [api_key |-> config.ANTHROPIC_API_KEY, model |-> CLAUDE_MODEL,
                                api_base_url |-> None]
        /\ outcome.raised <=> (not(config.GLM_API_KEY) /\ not(config.ANTHROPIC_API_KEY))
    /\ config_call.name \in {"get_agent_config", "get_platform_info"} =>
        (~Config_validate(config).raised => ~outcome.raised)

\* get_agent_config has returned the GLM triple on an accepted configuration
\* that sets both keys.
C22_Witness ==
    /\ config_call.name = "get_agent_config"
    /\ ~not(config.GLM_API_KEY)
    /\ ~not(config.ANTHROPIC_API_KEY)
    /\ ~Config_validate(config).raised
    /\ ~config_call.outcome.raised
    /\ config_call.outcome.value.api_base_url = GLM_API_BASE_URL

(***************************************************************************)
(* Replies to accepted prompts (checked under Spec)                        *)
(***************************************************************************)
\* The turn of message m has ended, it was a plain prompt that reached the
\* model, and the completion call returned or raised.
AcceptedTurn(m) ==
    /\ Finished(tasks[m])
    /\ PlainPrompt(msgs[m])
    /\ tasks[m].results # <<>>

\* Delivery i of task m is a final message for its conversation: the text
\* accumulated from the model, or an error text; "Processing..." is not one.
FinalMessage(m, i) ==
    /\ tasks[m].sent[i].chat_id = msgs[m].chat_id
    /\ \/ \E k \in DOMAIN tasks[m].results :
            tasks[m].sent[i].text = ResponseText(tasks[m].results[k])
       \/ startswith(tasks[m].sent[i].text, "Error: ")

\* C23, as stated: no accepted prompt whose completion call returned or
\* raised ends its turn without a final message handed to its conversation,
\* the case of an empty response text included.
C23_EveryPromptAnswered ==
    \A m \in Ids :
        AcceptedTurn(m) => \E i \in DOMAIN tasks[m].sent : FinalMessage(m, i)

(***************************************************************************)
(* The running flag of the Feishu relay (checked under Spec)               *)
(***************************************************************************)
\* The handler takes in a Feishu event in this step while the running flag
\* is down.
ReceivedWhileNotRunning ==
    /\ ~_running
    /\ \E e \in FeishuEvents : handle_message_receive_v1(e)

\* Task record t has touched neither the session store, nor the Completion
\* Client, nor the send API.
Untouched(t) ==
    /\ t.sent = <<>>
    /\ t.calls = <<>>
    /\ t.results = <<>>
    /\ t.queries = 0
    /\ t.session_id = None

\* C24: a Feishu event the handler takes in while the running flag is down
\* (stop() has run or the websocket client has ended; before start() sets
\* the flag no websocket client exists yet) is dropped at once: the step
\* leaves the session store and the file alone, no task is scheduled for it,
\* and the dropped event never gets a store access, a completion call or a
\* send afterwards.
C24_DispatchOnlyWhileRunning ==
    /\ [][ReceivedWhileNotRunning =>
            /\ tasks'[Len(tasks')].pc = "dropped"
            /\ Untouched(tasks'[Len(tasks')])
            /\ UNCHANGED storeVars
            /\ cpu' = 0]_vars
    /\ [](\A m \in Ids : tasks[m].pc = "dropped" => Untouched(tasks[m]))
    /\ [][\A m \in Ids : tasks[m].pc = "dropped" =>
            /\ m \in DOMAIN tasks' => tasks'[m] = Forgotten
            /\ UNCHANGED <<_sessions, file>> \/ exit_code' # <<>>]_vars
    /\ [](~started => msgs = <<>>)

\* After stop() a text that would be a prompt has come in and was dropped.
C24_Witness ==
    /\ platform = "feishu"
    /\ started
    /\ ~_running
    /\ \E m \in Ids :
        /\ tasks[m].pc = "dropped"
        /\ FeishuTextOf(msgs[m]) = <<"hello">>

(***************************************************************************)
(* The content of a Feishu text message. A text is a sequence of           *)
(* characters.                                                             *)
(***************************************************************************)
MaxLen == 3

\* A letter, the letter an escape of newline ends with, the four characters
\* _escape_lark_text replaces, and one more control character.
Chars == {"a", "n", "\\", "\"", "\n", "\r", "\t"}

LarkTexts == UNION {[1..n -> Chars] : n \in 0..MaxLen}

\* str.replace(old, new) for a one-character old.
RECURSIVE replace(_, _, _)
replace(text, old, new) ==
    IF text = <<>> THEN <<>>
    ELSE (IF Head(text) = old THEN new ELSE <<Head(text)>>) \o replace(Tail(text), old, new)

\* _escape_lark_text: four replacements, one after the other.
_escape_lark_text(text) ==
    replace(replace(replace(replace(text, "\\", <<"\\", "\\">>),
                            "\"", <<"\\", "\"">>),
                    "\n", <<"\\", "n">>),
            "\r", <<"\\", "r">>)

\* f'{{"text":"{escaped_text}"}}'
ContentPrefix == <<"{", "\"", "t", "e", "x", "t", "\"", ":", "\"">>

LarkContent(text) == ContentPrefix \o _escape_lark_text(text) \o <<"\"", "}">>

\* The characters JSON allows in a string only in escaped form (U+0000 to
\* U+001F), among Chars.
ControlChars == {"\n", "\r", "\t"}

\* What the two-character JSON escape \c stands for.
Unescaped(c) ==
    CASE c = "n" -> "\n"
      [] c = "r" -> "\r"
      [] c = "t" -> "\t"
      [] OTHER -> c

\* Decoding of a JSON string from behind its opening quote: whether it is
\* well formed, the characters it stands for, and what follows its closing
\* quote.
RECURSIVE json_string(_)
json_string(s) ==
    IF s = <<>> THEN [valid |-> FALSE, text |-> <<>>, rest |-> <<>>]
    ELSE IF Head(s) = "\"" THEN [valid |-> TRUE, text |-> <<>>, rest |-> Tail(s)]
    ELSE IF Head(s) \in ControlChars THEN [valid |-> FALSE, text |-> <<>>, rest |-> <<>>]
    ELSE IF Head(s) = "\\"
    THEN IF Len(s) < 2 \/ s[2] \notin {"\"", "\\", "/", "n", "r", "t"}
         THEN [valid |-> FALSE, text |-> <<>>, rest |-> <<>>]
         ELSE LET d == json_string(Tail(Tail(s)))
              IN  [d EXCEPT !.text = <<Unescaped(s[2])>> \o @]
    ELSE LET d == json_string(Tail(s))
         IN  [d EXCEPT !.text = <<Head(s)>> \o @]

\* json.loads of a message content: the decoded text field of the object
\* {"text":"..."}, or the fact that the content is no valid JSON object.
json_loads(content) ==
    IF Len(content) < Len(ContentPrefix) \/ SubSeq(content, 1, Len(ContentPrefix)) # ContentPrefix
    THEN [valid |-> FALSE, text |-> <<>>]
    ELSE LET d == json_string(SubSeq(content, Len(ContentPrefix) + 1, Len(content)))
         IN  IF d.valid /\ d.rest = <<"}">>
             THEN [valid |-> TRUE, text |-> d.text]
             ELSE [valid |-> FALSE, text |-> <<>>]

EscapeInit ==
    /\ SessionManagerInit
    /\ file = NoFile
    /\ RelayIdle

\* _send_message builds the content of its request for some text. The
\* content depends on nothing but the text, so one call is followed.
BuildContent ==
    /\ request = NoRequest
    /\ \E text \in LarkTexts : request' = [text |-> text, content |-> LarkContent(text)]
    /\ UNCHANGED <<platform, started, _running, conversation_history, msgs, tasks, cpu,
                   failures, config, exit_code, config_call>>
    /\ UNCHANGED storeVars

EscapeNext == BuildContent

EscapeSpec == EscapeInit /\ [][EscapeNext]_vars

\* C25, as stated: for every text, the content built for it is a valid JSON
\* object whose text field decodes to exactly that text.
C25_ContentRoundTrips ==
    request # NoRequest =>
        /\ json_loads(request.content).valid
        /\ json_loads(request.content).text = request.text

====
